---- MODULE Spec2Model ----
(***************************************************************************)
(* Model of net/veth.go: creation of a veth pair, its attachment to the    *)
(* weave bridge or datapath, the move of the peer end into a container     *)
(* network namespace, address reconciliation and detachment.               *)
(*                                                                         *)
(* The kernel networking state is the set of live veth pairs.  Every       *)
(* netlink call is one step of the calling goroutine; a call may be made   *)
(* to fail by the environment (inj) besides the failures the state forces  *)
(* (name collisions, stale handles, absent addresses).  The MTU of the     *)
(* pair is not modelled.                                                   *)
(***************************************************************************)
EXTENDS Integers, Sequences, FiniteSets, TLC

VARIABLES kernel, loc, pre, mode

vars == <<kernel, loc, pre, mode>>

(***************************************************************************)
(* Bounds and input universes                                              *)
(***************************************************************************)
MaxCidrs == 2

Procs == {1, 2}

Host == "host"

Namespaces == {"ns1", "ns2"}

IfName == <<"ethwe">>

IdA == <<"a", "b", "c", "d", "e", "f">>

IdB == <<"a", "b", "c", "d", "e", "g">>

IdC == <<"x", "y", "z">>

AllIds == {IdA, IdB, IdC}

\* addresses are <<ip, prefix length>>: 10.0.0.1/24, 10.0.0.1/16, 10.0.0.2/24
Addrs == {<<1, 24>>, <<1, 16>>, <<2, 24>>}

RECURSIVE SeqsUpTo(_, _)
SeqsUpTo(S, n) ==
  IF n = 0 THEN {<<>>}
  ELSE LET shorter == SeqsUpTo(S, n - 1)
       IN shorter \cup {Append(s, x) : s \in {t \in shorter : Len(t) = n - 1}, x \in S}

CidrLists == SeqsUpTo(Addrs, MaxCidrs)

\* devices known to the host, by name, with the link type LinkByName reports
DeviceNames == {"weave", "datapath", "gre0", "odp0", "tun0", "nodev"}

DevKind(name) ==
  CASE name = "weave"    -> "Bridge"
    [] name = "datapath" -> "GenericOVS"
    [] name = "gre0"     -> "GenericOther"
    [] name = "odp0"     -> "Device"
    [] name = "tun0"     -> "Other"
    [] OTHER             -> "Absent"

(***************************************************************************)
(* The kernel: a set of live veth pairs.  The local end of a pair always   *)
(* lives in the host namespace under lname; the peer end lives in pns      *)
(* under pname and carries the addresses, the up flag and the multicast    *)
(* route.  idx identifies the pair to the handles (netlink.Link values)    *)
(* held by callers; a handle resolves only in the namespace its end lives  *)
(* in, and deleting either end deletes the pair.                           *)
(***************************************************************************)
NoLink == 0

MaxIdx == 4

LinkNames(k, ns) ==
  {r.pname : r \in {x \in k : x.pns = ns}}
    \cup (IF ns = Host THEN {r.lname : r \in k} ELSE {})

LocalEnd(k, cur, h) == {r \in k : r.idx = h /\ cur = Host}

PeerEnd(k, cur, h) == {r \in k : r.idx = h /\ r.pns = cur}

PeerByName(k, cur, name) == {r \in k : r.pns = cur /\ r.pname = name}

FreeIdx(k, held) ==
  CHOOSE n \in 1..MaxIdx :
    /\ n \notin ({r.idx : r \in k} \cup held)
    /\ \A m \in 1..(n - 1) : m \in ({r.idx : r \in k} \cup held)

(***************************************************************************)
(* Names derived from the container id                                     *)
(***************************************************************************)
\* a name that leaves the container id out
LocalNameFixed(id) == <<"vethwepl">>

\* the identity used whole
TruncateNone(id) == id

IdPrefixLen == 5

Truncate(id) == IF Len(id) > IdPrefixLen THEN SubSeq(id, 1, IdPrefixLen) ELSE id

LocalName(id) == <<"vethwepl">> \o Truncate(id)

PeerName(id) == <<"vethwg">> \o Truncate(id)

\* a comparison of IP and prefix length
containsExact(addrs, addr) == addr \in addrs

(***************************************************************************)
(* contains: is the IP of addr among the IPs of addrs (prefix ignored)     *)
(***************************************************************************)
contains(addrs, addr) == \E x \in addrs : addr[1] = x[1]

(***************************************************************************)
(* The state of one call                                                   *)
(***************************************************************************)
Idle ==
  [pc |-> "idle", op |-> "none", ns |-> Host, id |-> <<>>, ifName |-> <<>>,
   bridge |-> "nodev", mcast |-> FALSE, cidrs |-> <<>>, curns |-> Host,
   maybeBridge |-> "Absent", local |-> NoLink, peer |-> NoLink,
   guest |-> NoLink, existing |-> {}, i |-> 1, newAddrs |-> <<>>,
   err |-> "nil", log |-> <<>>, injAt |-> "none", injK |-> 0,
   injDel |-> FALSE, retry |-> FALSE, saved |-> Host, known |-> {},
   round |-> 0]

NewCall(op, ns, ifName) ==
  [Idle EXCEPT !.pc = IF op = "attach" THEN "exists" ELSE "dNsLink",
               !.op = op, !.ns = ns, !.ifName = ifName]

Logged(l, call, arg, ok) == Append(l.log, <<call, arg, ok>>)

\* the environment makes the call at l.pc (iteration l.i) fail
Injected(l, inj) ==
  IF inj THEN [l EXCEPT !.injAt = l.pc, !.injK = l.i] ELSE l

(***************************************************************************)
(* WithNetNS / WithNetNSLink: switch the goroutine's namespace for the     *)
(* duration of the wrapped work and switch back on every exit.             *)
(***************************************************************************)
EnterNS(l) == [l EXCEPT !.saved = l.curns, !.curns = l.ns]

LeaveNS(l) == [l EXCEPT !.curns = l.saved]

\* the call returns err to its caller
Return(l, err) == [l EXCEPT !.pc = "done", !.err = err]

\* the lookup made without switching to ns
interfaceExistsInHost(k, l) == PeerByName(k, l.curns, l.ifName) # {}

(***************************************************************************)
(* interfaceExistsInNamespace: a lookup error is read as absence; the      *)
(* lookup is taken to fail only when no link of that name is in ns.        *)
(***************************************************************************)
interfaceExistsInNamespace(k, l) ==
  PeerByName(k, EnterNS(l).curns, l.ifName) # {}

ExistsStep(k, l) ==
  LET present == interfaceExistsInNamespace(k, l)
  IN [k |-> k,
      l |-> [l EXCEPT !.pc = IF present THEN "nsLink" ELSE "lookupBridge",
                      !.log = Logged(l, "Exists", 0, present)]]

(***************************************************************************)
(* CreateAndAttachVeth                                                     *)
(***************************************************************************)
\* a failure path that returns its error without calling cleanup
CleanupForgotten(l, err) == Return(l, err)

\* cleanup: the error is set, the pair is deleted by the next step
Cleanup(l, err) == [l EXCEPT !.pc = "cleanup", !.err = err]

LookupBridgeStep(k, l, inj) ==
  LET kind == DevKind(l.bridge)
      ok == kind # "Absent" /\ ~inj
      l1 == [Injected(l, inj) EXCEPT !.log = Logged(l, "LinkByName", 0, ok)]
  IN [k |-> k,
      l |-> IF ok THEN [l1 EXCEPT !.pc = "linkAdd", !.maybeBridge = kind]
            ELSE Return(l1, "DeviceNotFound")]

\* a failed LinkAdd followed by the deletion of the link of that name
LinkAddCleansUp(k, l, inj, held) ==
  LET lname == LocalName(l.id)
      pname == PeerName(l.id)
      ok == ~inj /\ {lname, pname} \cap LinkNames(k, l.curns) = {}
      l1 == [Injected(l, inj) EXCEPT !.log = Logged(l, "LinkAdd", 0, ok)]
  IN IF ok
     THEN [k |-> k \cup {[idx |-> FreeIdx(k, held), lname |-> lname, lup |-> FALSE,
                          attached |-> FALSE, pns |-> Host, pname |-> pname,
                          gup |-> FALSE, addrs |-> {}, route |-> FALSE]},
           l |-> [l1 EXCEPT !.pc = "attachDev", !.local = FreeIdx(k, held)]]
     ELSE [k |-> {r \in k : r.lname # lname}, l |-> Return(l1, "CreationFailed")]

NewPair(idx, lname, pname) ==
  [idx |-> idx, lname |-> lname, lup |-> FALSE, attached |-> FALSE,
   pns |-> Host, pname |-> pname, gup |-> FALSE, addrs |-> {}, route |-> FALSE]

LinkAddStep(k, l, inj, held) ==
  LET lname == LocalName(l.id)
      pname == PeerName(l.id)
      ok == ~inj /\ {lname, pname} \cap LinkNames(k, l.curns) = {}
      idx == FreeIdx(k, held)
      l1 == [Injected(l, inj) EXCEPT !.log = Logged(l, "LinkAdd", 0, ok)]
  IN IF ok
     THEN [k |-> k \cup {NewPair(idx, lname, pname)},
           l |-> [l1 EXCEPT !.pc = "attachDev", !.local = idx]]
     ELSE [k |-> k, l |-> Return(l1, "CreationFailed")]

\* the switch without the test of the type of a generic link
AttachDevAnyGeneric(k, l, inj) ==
  LET mine == LocalEnd(k, l.curns, l.local)
      l1 == Injected(l, inj)
  IN CASE l.maybeBridge = "Bridge" ->
            LET ok == ~inj /\ mine # {}
                l2 == [l1 EXCEPT !.log = Logged(l, "SetMaster", 0, ok)]
            IN IF ok
               THEN [k |-> {IF r \in mine THEN [r EXCEPT !.attached = TRUE] ELSE r : r \in k},
                     l |-> [l2 EXCEPT !.pc = "peerLookup"]]
               ELSE [k |-> k, l |-> Cleanup(l2, "AttachFailed")]
       [] l.maybeBridge \in {"GenericOVS", "GenericOther", "Device"} ->
            LET port == {r \in k : r.lname = LocalName(l.id) /\ l.curns = Host}
                ok == ~inj /\ port # {}
                l2 == [l1 EXCEPT !.log = Logged(l, "AddPort", 0, ok)]
            IN IF ok
               THEN [k |-> {IF r \in port THEN [r EXCEPT !.attached = TRUE] ELSE r : r \in k},
                     l |-> [l2 EXCEPT !.pc = "peerLookup"]]
               ELSE [k |-> k, l |-> Cleanup(l2, "AttachFailed")]
       [] OTHER -> [k |-> k, l |-> Cleanup(l, "UnsupportedDevice")]

\* the switch over the type of the device found under bridgeName
AttachDevStep(k, l, inj) ==
  LET mine == LocalEnd(k, l.curns, l.local)
      l1 == Injected(l, inj)
  IN CASE l.maybeBridge = "Bridge" ->
            LET ok == ~inj /\ mine # {}
                l2 == [l1 EXCEPT !.log = Logged(l, "SetMaster", 0, ok)]
            IN IF ok
               THEN [k |-> {IF r \in mine THEN [r EXCEPT !.attached = TRUE] ELSE r : r \in k},
                     l |-> [l2 EXCEPT !.pc = "peerLookup"]]
               ELSE [k |-> k, l |-> Cleanup(l2, "AttachFailed")]
       [] l.maybeBridge \in {"GenericOVS", "Device"} ->
            LET port == {r \in k : r.lname = LocalName(l.id) /\ l.curns = Host}
                ok == ~inj /\ port # {}
                l2 == [l1 EXCEPT !.log = Logged(l, "AddPort", 0, ok)]
            IN IF ok
               THEN [k |-> {IF r \in port THEN [r EXCEPT !.attached = TRUE] ELSE r : r \in k},
                     l |-> [l2 EXCEPT !.pc = "peerLookup"]]
               ELSE [k |-> k, l |-> Cleanup(l2, "AttachFailed")]
       [] OTHER -> [k |-> k, l |-> Cleanup(l, "UnsupportedDevice")]

\* the initializer not run
PeerLookupSkipsInit(k, l, inj) ==
  LET found == PeerByName(k, l.curns, PeerName(l.id))
      ok == ~inj /\ found # {}
      l1 == [Injected(l, inj) EXCEPT !.log = Logged(l, "PeerLookup", 0, ok)]
  IN [k |-> k,
      l |-> IF ok THEN [l1 EXCEPT !.pc = "localUp", !.peer = (CHOOSE r \in found : TRUE).idx]
            ELSE Cleanup(l1, "PeerLookupFailed")]

\* init != nil: netlink.LinkByName(peerName)
PeerLookupStep(k, l, inj) ==
  LET found == PeerByName(k, l.curns, PeerName(l.id))
      ok == ~inj /\ found # {}
      l1 == [Injected(l, inj) EXCEPT !.log = Logged(l, "PeerLookup", 0, ok)]
  IN [k |-> k,
      l |-> IF ok THEN [l1 EXCEPT !.pc = "setNs", !.peer = (CHOOSE r \in found : TRUE).idx]
            ELSE Cleanup(l1, "PeerLookupFailed")]

\* the initializer of AttachContainer: EthtoolTXOff, then LinkSetNsFd(guest, ns)
SetNsStep(k, l, inj) ==
  LET mine == PeerEnd(k, l.curns, l.peer)
      ok == ~inj /\ mine # {} /\ \A r \in mine : r.pname \notin LinkNames(k, l.ns)
      l0 == [Injected(l, inj) EXCEPT !.log = Logged(l, "TXOff", 0, TRUE)]
      l1 == [l0 EXCEPT !.log = Logged(l0, "SetNs", 0, ok)]
  IN IF ok
     THEN [k |-> {IF r \in mine THEN [r EXCEPT !.pns = l.ns] ELSE r : r \in k},
           l |-> [l1 EXCEPT !.pc = "setName"]]
     ELSE [k |-> k, l |-> Cleanup(l1, "NamespaceMoveFailed")]

\* the error of SetupGuest returned without the rollback
SetNameNoRollback(k, l, inj) ==
  LET l0 == EnterNS(l)
      mine == PeerEnd(k, l0.curns, l.peer)
      ok == ~inj /\ mine # {} /\ l.ifName \notin LinkNames(k, l0.curns)
      l1 == [Injected(l0, inj) EXCEPT !.log = Logged(l, "SetName", 0, ok)]
  IN IF ok
     THEN [k |-> {IF r \in mine THEN [r EXCEPT !.pname = l.ifName] ELSE r : r \in k},
           l |-> [l1 EXCEPT !.pc = "arpCache"]]
     ELSE [k |-> k, l |-> Return(LeaveNS(l1), "RenameFailed")]

\* WithNetNS(ns, SetupGuest(guest, ifName)): netlink.LinkSetName
SetNameStep(k, l, inj) ==
  LET l0 == EnterNS(l)
      mine == PeerEnd(k, l0.curns, l.peer)
      ok == ~inj /\ mine # {} /\ l.ifName \notin LinkNames(k, l0.curns)
      l1 == [Injected(l0, inj) EXCEPT !.log = Logged(l, "SetName", 0, ok)]
  IN IF ok
     THEN [k |-> {IF r \in mine THEN [r EXCEPT !.pname = l.ifName] ELSE r : r \in k},
           l |-> [l1 EXCEPT !.pc = "arpCache"]]
     ELSE [k |-> k, l |-> Cleanup(LeaveNS(l1), "RenameFailed")]

\* the local link-up made part of the work wrapped by WithNetNS
ArpCacheStaysInNS(k, l, inj) ==
  LET ok == ~inj /\ PeerByName(k, l.curns, l.ifName) # {}
      l1 == [Injected(l, inj) EXCEPT !.log = Logged(l, "ARPCache", 0, ok)]
  IN [k |-> k,
      l |-> IF ok THEN [l1 EXCEPT !.pc = "localUp"]
            ELSE Cleanup(LeaveNS(l1), "CacheConfigFailed")]

\* SetupGuest: ConfigureARPCache(name), then WithNetNS returns
ArpCacheStep(k, l, inj) ==
  LET ok == ~inj /\ PeerByName(k, l.curns, l.ifName) # {}
      l1 == [Injected(l, inj) EXCEPT !.log = Logged(l, "ARPCache", 0, ok)]
  IN [k |-> k,
      l |-> IF ok THEN [LeaveNS(l1) EXCEPT !.pc = "localUp"]
            ELSE Cleanup(LeaveNS(l1), "CacheConfigFailed")]

\* netlink.LinkSetUp(local)
LocalUpStep(k, l, inj) ==
  LET mine == LocalEnd(k, l.curns, l.local)
      ok == ~inj /\ mine # {}
      l1 == [Injected(l, inj) EXCEPT !.log = Logged(l, "LocalUp", 0, ok)]
  IN IF ok
     THEN [k |-> {IF r \in mine THEN [r EXCEPT !.lup = TRUE] ELSE r : r \in k},
           l |-> [l1 EXCEPT !.pc = "nsLink"]]
     ELSE [k |-> k, l |-> Cleanup(l1, "LinkUpFailed")]

\* cleanup returning the error of the deletion when the deletion fails
CleanupReportsDelFailure(k, l, inj) ==
  LET mine == LocalEnd(k, l.curns, l.local)
      ok == ~inj /\ mine # {}
  IN [k |-> IF ok THEN k \ mine ELSE k,
      l |-> [l EXCEPT !.pc = "done", !.injDel = inj,
                      !.err = IF ok THEN l.err ELSE "LinkDelFailed",
                      !.log = Logged(l, "LinkDel", 0, ok)]]

\* cleanup: netlink.LinkDel(local), its error dropped; the stored error returned
CleanupStep(k, l, inj) ==
  LET mine == LocalEnd(k, l.curns, l.local)
      ok == ~inj /\ mine # {}
  IN [k |-> IF ok THEN k \ mine ELSE k,
      l |-> [l EXCEPT !.pc = "done", !.injDel = inj,
                      !.log = Logged(l, "LinkDel", 0, ok)]]

(***************************************************************************)
(* AttachContainer, second part: WithNetNSLink(ns, ifName, ...)            *)
(***************************************************************************)
\* WithNetNSLink: switch to ns and resolve ifName there
WithNetNSLink(k, l, inj, body) ==
  LET l0 == EnterNS(l)
      found == PeerByName(k, l0.curns, l.ifName)
      ok == ~inj /\ found # {}
      l1 == [Injected(l0, inj) EXCEPT !.log = Logged(l, "NsLink", 0, ok)]
  IN [k |-> k,
      l |-> IF ok
            THEN [l1 EXCEPT !.pc = body, !.guest = (CHOOSE r \in found : TRUE).idx]
            ELSE Return(LeaveNS(l1), "InterfaceNotFound")]

NsLinkStep(k, l, inj) == WithNetNSLink(k, l, inj, "addrList")

\* netlink.AddrList(guest, FAMILY_V4) before a loop over cidrs
AddrList(k, l, inj, loop, after) ==
  LET mine == PeerEnd(k, l.curns, l.guest)
      ok == ~inj /\ mine # {}
      l1 == [Injected(l, inj) EXCEPT !.log = Logged(l, "AddrList", 0, ok)]
  IN [k |-> k,
      l |-> IF ok
            THEN [l1 EXCEPT !.existing = (CHOOSE r \in mine : TRUE).addrs, !.i = 1,
                            !.pc = IF Len(l.cidrs) = 0 THEN after ELSE loop]
            ELSE Return(LeaveNS(l1), "AddressQueryFailed")]

AddrListStep(k, l, inj) == AddrList(k, l, inj, "addrAdd", "guestUp")

\* the addresses added so far returned together with the error
AddrAddReportsPartial(k, l, inj) ==
  LET a == l.cidrs[l.i]
      mine == PeerEnd(k, l.curns, l.guest)
      next == [l EXCEPT !.i = l.i + 1,
                        !.pc = IF l.i = Len(l.cidrs) THEN "guestUp" ELSE "addrAdd"]
  IN IF contains(l.existing, a)
     THEN [k |-> k, l |-> next]
     ELSE LET ok == ~inj /\ mine # {} /\ \A r \in mine : a \notin r.addrs
          IN IF ok
             THEN [k |-> {IF r \in mine THEN [r EXCEPT !.addrs = r.addrs \cup {a}] ELSE r : r \in k},
                   l |-> [next EXCEPT !.newAddrs = Append(l.newAddrs, a),
                                      !.log = Logged(l, "AddrAdd", a, TRUE)]]
             ELSE [k |-> k,
                   l |-> Return(LeaveNS([Injected(l, inj) EXCEPT
                                           !.log = Logged(l, "AddrAdd", a, FALSE)]),
                                "AddressMutationFailed")]

\* one iteration of the loop of AddAddresses
AddrAddStep(k, l, inj) ==
  LET a == l.cidrs[l.i]
      mine == PeerEnd(k, l.curns, l.guest)
      next == [l EXCEPT !.i = l.i + 1,
                        !.pc = IF l.i = Len(l.cidrs) THEN "guestUp" ELSE "addrAdd"]
  IN IF contains(l.existing, a)
     THEN [k |-> k, l |-> next]
     ELSE LET ok == ~inj /\ mine # {} /\ \A r \in mine : a \notin r.addrs
          IN IF ok
             THEN [k |-> {IF r \in mine THEN [r EXCEPT !.addrs = r.addrs \cup {a}] ELSE r : r \in k},
                   l |-> [next EXCEPT !.newAddrs = Append(l.newAddrs, a),
                                      !.log = Logged(l, "AddrAdd", a, TRUE)]]
             ELSE [k |-> k,
                   l |-> Return(LeaveNS([Injected(l, inj) EXCEPT
                                           !.newAddrs = <<>>,
                                           !.log = Logged(l, "AddrAdd", a, FALSE)]),
                                "AddressMutationFailed")]

\* netlink.LinkSetUp(guest)
GuestUpStep(k, l, inj) ==
  LET mine == PeerEnd(k, l.curns, l.guest)
      ok == ~inj /\ mine # {}
      l1 == [Injected(l, inj) EXCEPT !.log = Logged(l, "GuestUp", 0, ok)]
  IN IF ok
     THEN [k |-> {IF r \in mine THEN [r EXCEPT !.gup = TRUE] ELSE r : r \in k},
           l |-> [l1 EXCEPT !.pc = "announce"]]
     ELSE [k |-> k, l |-> Return(LeaveNS(l1), "LinkUpFailed")]

\* arping.GratuitousArpOverIfaceByName for every new address, in order
RECURSIVE Announced(_, _, _)
Announced(log, addrs, n) ==
  IF n > Len(addrs) THEN log
  ELSE Announced(Append(log, <<"Arping", addrs[n], TRUE>>), addrs, n + 1)

\* the route installed whether or not it was asked for
AnnounceAlwaysRoutes(k, l) ==
  [k |-> k, l |-> [l EXCEPT !.log = Announced(l.log, l.newAddrs, 1), !.pc = "route"]]

\* an announcement for every desired address
AnnounceAllDesired(k, l) ==
  LET l1 == [l EXCEPT !.log = Announced(l.log, l.cidrs, 1)]
  IN [k |-> k,
      l |-> IF l.mcast THEN [l1 EXCEPT !.pc = "route"]
            ELSE Return(LeaveNS(l1), "nil")]

AnnounceStep(k, l) ==
  LET l1 == [l EXCEPT !.log = Announced(l.log, l.newAddrs, 1)]
  IN [k |-> k,
      l |-> IF l.mcast THEN [l1 EXCEPT !.pc = "route"]
            ELSE Return(LeaveNS(l1), "nil")]

\* AddRoute(guest, SCOPE_LINK, 224.0.0.0/4, nil)
RouteStep(k, l, inj) ==
  LET mine == PeerEnd(k, l.curns, l.guest)
      ok == ~inj /\ mine # {}
      l1 == [Injected(l, inj) EXCEPT !.log = Logged(l, "AddRoute", 0, ok)]
  IN IF ok
     THEN [k |-> {IF r \in mine THEN [r EXCEPT !.route = TRUE] ELSE r : r \in k},
           l |-> Return(LeaveNS(l1), "nil")]
     ELSE [k |-> k, l |-> Return(LeaveNS(l1), "RouteFailed")]

(***************************************************************************)
(* DetachContainer                                                         *)
(***************************************************************************)
DNsLinkStep(k, l, inj) == WithNetNSLink(k, l, inj, "dAddrList")

DAddrListStep(k, l, inj) == AddrList(k, l, inj, "addrDel", "addrList2")

\* one iteration of the removal loop
AddrDelStep(k, l, inj) ==
  LET a == l.cidrs[l.i]
      mine == PeerEnd(k, l.curns, l.guest)
      next == [l EXCEPT !.i = l.i + 1,
                        !.pc = IF l.i = Len(l.cidrs) THEN "addrList2" ELSE "addrDel"]
  IN IF ~contains(l.existing, a)
     THEN [k |-> k, l |-> next]
     ELSE LET ok == ~inj /\ mine # {} /\ \A r \in mine : a \in r.addrs
          IN IF ok
             THEN [k |-> {IF r \in mine THEN [r EXCEPT !.addrs = r.addrs \ {a}] ELSE r : r \in k},
                   l |-> [next EXCEPT !.log = Logged(l, "AddrDel", a, TRUE)]]
             ELSE [k |-> k,
                   l |-> Return(LeaveNS([Injected(l, inj) EXCEPT
                                           !.log = Logged(l, "AddrDel", a, FALSE)]),
                                "AddressMutationFailed")]

\* the interface deleted without the test of the remaining addresses
AddrList2AlwaysDeletes(k, l, inj) ==
  LET mine == PeerEnd(k, l.curns, l.guest)
      ok == ~inj /\ mine # {}
      l1 == [Injected(l, inj) EXCEPT !.log = Logged(l, "AddrList", 0, ok)]
  IN [k |-> k,
      l |-> IF ~ok THEN Return(LeaveNS(l1), "AddressQueryFailed")
            ELSE [l1 EXCEPT !.pc = "guestDel"]]

\* the interface kept whatever addresses are left
AddrList2NeverDeletes(k, l, inj) ==
  LET mine == PeerEnd(k, l.curns, l.guest)
      ok == ~inj /\ mine # {}
      l1 == [Injected(l, inj) EXCEPT !.log = Logged(l, "AddrList", 0, ok)]
  IN [k |-> k,
      l |-> IF ~ok THEN Return(LeaveNS(l1), "AddressQueryFailed")
            ELSE Return(LeaveNS(l1), "nil")]

\* the second netlink.AddrList and the test len(addrs) == 0
AddrList2Step(k, l, inj) ==
  LET mine == PeerEnd(k, l.curns, l.guest)
      ok == ~inj /\ mine # {}
      l1 == [Injected(l, inj) EXCEPT !.log = Logged(l, "AddrList", 0, ok)]
  IN [k |-> k,
      l |-> IF ~ok THEN Return(LeaveNS(l1), "AddressQueryFailed")
            ELSE IF (CHOOSE r \in mine : TRUE).addrs = {}
                 THEN [l1 EXCEPT !.pc = "guestDel"]
                 ELSE Return(LeaveNS(l1), "nil")]

\* all addresses gone: netlink.LinkDel(guest)
GuestDelStep(k, l, inj) ==
  LET mine == PeerEnd(k, l.curns, l.guest)
      ok == ~inj /\ mine # {}
      l1 == [Injected(l, inj) EXCEPT !.log = Logged(l, "GuestDel", 0, ok)]
  IN IF ok
     THEN [k |-> k \ mine, l |-> Return(LeaveNS(l1), "nil")]
     ELSE [k |-> k, l |-> Return(LeaveNS(l1), "LinkDelFailed")]

(***************************************************************************)
(* The callers.  In mode "seq" one caller issues calls one after another;  *)
(* in the other modes two callers, each with its own namespace and its     *)
(* own identity, run their calls concurrently.  An argument of a call is   *)
(* fixed when the code first reads it (known); a caller may repeat a call  *)
(* that succeeded with identical arguments.  In mode "round" one caller    *)
(* alternates Attach and Detach with the same arguments for as long as the *)
(* calls succeed.                                                          *)
(***************************************************************************)
Active == IF mode \in {"seq", "round"} THEN {1} ELSE Procs

NsOf(p) ==
  IF mode = "seq" THEN Namespaces
  ELSE IF p = 1 \/ mode = "race" THEN {"ns1"} ELSE {"ns2"}

\* in mode "concSame" the two callers' identities share their first five
\* characters, in the modes "concDistinct" and "race" they do not; in mode
\* "race" the two callers work on the same namespace
IdsOf(p) ==
  IF mode = "seq" THEN {IdA, IdB}
  ELSE IF p = 1 THEN {IdA}
  ELSE IF mode = "concSame" THEN {IdB} ELSE {IdC}

BridgesOf(p) == IF mode = "seq" THEN DeviceNames ELSE {"weave"}

CidrsOf(p) == IF mode = "seq" THEN CidrLists ELSE {c \in CidrLists : Len(c) <= 1}

Inj == BOOLEAN

Arg(l, f, dom) == IF f \in l.known THEN {l[f]} ELSE dom

Held == UNION {{loc[q].local, loc[q].peer, loc[q].guest} : q \in Procs}

Apply(p, r) ==
  /\ kernel' = r.k
  /\ loc' = [loc EXCEPT ![p] = r.l]
  /\ UNCHANGED <<pre, mode>>

\* in mode "seq" the caller issues call after call; each concurrent caller
\* issues one call
Begin(p, l) ==
  /\ loc[p].pc = "idle" \/ (mode = "seq" /\ loc[p].pc = "done")
  /\ loc' = [loc EXCEPT ![p] = l]
  /\ pre' = [pre EXCEPT ![p] = kernel]
  /\ UNCHANGED <<kernel, mode>>

AttachCall(p) == \E ns \in NsOf(p) : Begin(p, NewCall("attach", ns, IfName))

DetachCall(p) == \E ns \in NsOf(p) : Begin(p, NewCall("detach", ns, IfName))

\* the call that just succeeded, once more with identical arguments
Retry(p) ==
  LET l == loc[p]
  IN /\ l.pc = "done"
     /\ l.err = "nil"
     /\ ~l.retry
     /\ Begin(p, [NewCall(l.op, l.ns, l.ifName) EXCEPT
                    !.id = l.id, !.bridge = l.bridge, !.mcast = l.mcast,
                    !.cidrs = l.cidrs, !.known = l.known, !.retry = TRUE])

Exists(p) == loc[p].pc = "exists" /\ Apply(p, ExistsStep(kernel, loc[p]))

LookupBridge(p) ==
  /\ loc[p].pc = "lookupBridge"
  /\ \E id \in Arg(loc[p], "id", IdsOf(p)), b \in Arg(loc[p], "bridge", BridgesOf(p)), inj \in Inj :
       Apply(p, LookupBridgeStep(kernel,
                  [loc[p] EXCEPT !.id = id, !.bridge = b, !.known = @ \cup {"id", "bridge"}],
                  inj))

LinkAdd(p) ==
  loc[p].pc = "linkAdd" /\ \E inj \in Inj : Apply(p, LinkAddStep(kernel, loc[p], inj, Held))

AttachDev(p) ==
  loc[p].pc = "attachDev" /\ \E inj \in Inj : Apply(p, AttachDevStep(kernel, loc[p], inj))

PeerLookup(p) ==
  loc[p].pc = "peerLookup" /\ \E inj \in Inj : Apply(p, PeerLookupStep(kernel, loc[p], inj))

SetNs(p) == loc[p].pc = "setNs" /\ \E inj \in Inj : Apply(p, SetNsStep(kernel, loc[p], inj))

SetName(p) ==
  loc[p].pc = "setName" /\ \E inj \in Inj : Apply(p, SetNameStep(kernel, loc[p], inj))

ArpCache(p) ==
  loc[p].pc = "arpCache" /\ \E inj \in Inj : Apply(p, ArpCacheStep(kernel, loc[p], inj))

LocalUp(p) ==
  loc[p].pc = "localUp" /\ \E inj \in Inj : Apply(p, LocalUpStep(kernel, loc[p], inj))

CleanupDel(p) ==
  loc[p].pc = "cleanup" /\ \E inj \in Inj : Apply(p, CleanupStep(kernel, loc[p], inj))

NsLink(p) == loc[p].pc = "nsLink" /\ \E inj \in Inj : Apply(p, NsLinkStep(kernel, loc[p], inj))

AddrListA(p) ==
  /\ loc[p].pc = "addrList"
  /\ \E c \in Arg(loc[p], "cidrs", CidrsOf(p)), inj \in Inj :
       Apply(p, AddrListStep(kernel,
                  [loc[p] EXCEPT !.cidrs = c, !.known = @ \cup {"cidrs"}], inj))

AddrAdd(p) ==
  loc[p].pc = "addrAdd" /\ \E inj \in Inj : Apply(p, AddrAddStep(kernel, loc[p], inj))

GuestUp(p) ==
  loc[p].pc = "guestUp" /\ \E inj \in Inj : Apply(p, GuestUpStep(kernel, loc[p], inj))

Announce(p) ==
  /\ loc[p].pc = "announce"
  /\ \E m \in Arg(loc[p], "mcast", BOOLEAN) :
       Apply(p, AnnounceStep(kernel,
                  [loc[p] EXCEPT !.mcast = m, !.known = @ \cup {"mcast"}]))

Route(p) == loc[p].pc = "route" /\ \E inj \in Inj : Apply(p, RouteStep(kernel, loc[p], inj))

DNsLink(p) ==
  loc[p].pc = "dNsLink" /\ \E inj \in Inj : Apply(p, DNsLinkStep(kernel, loc[p], inj))

DAddrList(p) ==
  /\ loc[p].pc = "dAddrList"
  /\ \E c \in Arg(loc[p], "cidrs", CidrsOf(p)), inj \in Inj :
       Apply(p, DAddrListStep(kernel,
                  [loc[p] EXCEPT !.cidrs = c, !.known = @ \cup {"cidrs"}], inj))

AddrDel(p) ==
  loc[p].pc = "addrDel" /\ \E inj \in Inj : Apply(p, AddrDelStep(kernel, loc[p], inj))

AddrList2(p) ==
  loc[p].pc = "addrList2" /\ \E inj \in Inj : Apply(p, AddrList2Step(kernel, loc[p], inj))

GuestDel(p) ==
  loc[p].pc = "guestDel" /\ \E inj \in Inj : Apply(p, GuestDelStep(kernel, loc[p], inj))

(***************************************************************************)
(* A call run to its end with nothing else running: the steps above in     *)
(* program order, from kernel state k, with the arguments of call record   *)
(* a and the environment failing the calls it failed for a.                *)
(***************************************************************************)
StepOf(k, l, inj, del) ==
  CASE l.pc = "exists"       -> ExistsStep(k, l)
    [] l.pc = "lookupBridge" -> LookupBridgeStep(k, l, inj)
    [] l.pc = "linkAdd"      -> LinkAddStep(k, l, inj, {})
    [] l.pc = "attachDev"    -> AttachDevStep(k, l, inj)
    [] l.pc = "peerLookup"   -> PeerLookupStep(k, l, inj)
    [] l.pc = "setNs"        -> SetNsStep(k, l, inj)
    [] l.pc = "setName"      -> SetNameStep(k, l, inj)
    [] l.pc = "arpCache"     -> ArpCacheStep(k, l, inj)
    [] l.pc = "localUp"      -> LocalUpStep(k, l, inj)
    [] l.pc = "cleanup"      -> CleanupStep(k, l, del)
    [] l.pc = "nsLink"       -> NsLinkStep(k, l, inj)
    [] l.pc = "addrList"     -> AddrListStep(k, l, inj)
    [] l.pc = "addrAdd"      -> AddrAddStep(k, l, inj)
    [] l.pc = "guestUp"      -> GuestUpStep(k, l, inj)
    [] l.pc = "announce"     -> AnnounceStep(k, l)
    [] l.pc = "route"        -> RouteStep(k, l, inj)
    [] l.pc = "dNsLink"      -> DNsLinkStep(k, l, inj)
    [] l.pc = "dAddrList"    -> DAddrListStep(k, l, inj)
    [] l.pc = "addrDel"      -> AddrDelStep(k, l, inj)
    [] l.pc = "addrList2"    -> AddrList2Step(k, l, inj)
    [] l.pc = "guestDel"     -> GuestDelStep(k, l, inj)

RECURSIVE Run(_, _, _)
Run(k, l, a) ==
  IF l.pc = "done" THEN [k |-> k, l |-> l]
  ELSE LET r == StepOf(k, l, a.injAt = l.pc /\ a.injK = l.i, a.injDel)
       IN Run(r.k, r.l, a)

WithArgs(op, ns, ifName, id, bridge, mcast, cidrs) ==
  [NewCall(op, ns, ifName) EXCEPT
     !.id = id, !.bridge = bridge, !.mcast = mcast, !.cidrs = cidrs,
     !.known = {"id", "bridge", "mcast", "cidrs"}]

RunAlone(k, a) ==
  Run(k, WithArgs(a.op, a.ns, a.ifName, a.id, a.bridge, a.mcast, a.cidrs), a)

(***************************************************************************)
(* Initial states                                                          *)
(***************************************************************************)
InitCommon ==
  /\ loc = [p \in Procs |-> Idle]
  /\ pre = [p \in Procs |-> {}]

Init == InitCommon /\ kernel = {} /\ mode = "seq"

\* the concurrent callers start from a state earlier attachments left:
\* for each of them, none or one that succeeded
Attached(k, p, c) ==
  IF c = <<>> THEN k
  ELSE RunAlone(k, [WithArgs("attach", CHOOSE n \in NsOf(p) : TRUE, IfName,
                             CHOOSE i \in IdsOf(p) : TRUE, "weave", FALSE, c)
                      EXCEPT !.injAt = "none"]).k

InitConc ==
  /\ InitCommon
  /\ mode \in {"concSame", "concDistinct"}
  /\ \E c1 \in CidrsOf(1), c2 \in CidrsOf(2) :
       kernel = Attached(Attached({}, 1, c1), 2, c2)

\* the round trip: one caller, the guest interface of its namespace absent,
\* another container attached or not
RoundBridges == {"weave", "datapath", "odp0", "gre0"}

InitRound ==
  /\ mode = "round"
  /\ kernel \in {{}, Attached({}, 2, << <<2, 24>> >>)}
  /\ pre = [p \in Procs |-> kernel]
  /\ \E id \in {IdA, IdC}, b \in RoundBridges, m \in BOOLEAN, c \in CidrLists :
       loc = [p \in Procs |->
                IF p = 1
                THEN [WithArgs("attach", "ns1", IfName, id, b, m, c) EXCEPT !.round = 1]
                ELSE Idle]

\* two callers about to attach two containers to the same namespace
InitRace == InitCommon /\ mode = "race" /\ kernel = {}

Next ==
  \/ \E p \in Active : AttachCall(p)
  \/ \E p \in Active : DetachCall(p)
  \/ \E p \in Active : Retry(p)
  \/ \E p \in Active : Exists(p)
  \/ \E p \in Active : LookupBridge(p)
  \/ \E p \in Active : LinkAdd(p)
  \/ \E p \in Active : AttachDev(p)
  \/ \E p \in Active : PeerLookup(p)
  \/ \E p \in Active : SetNs(p)
  \/ \E p \in Active : SetName(p)
  \/ \E p \in Active : ArpCache(p)
  \/ \E p \in Active : LocalUp(p)
  \/ \E p \in Active : CleanupDel(p)
  \/ \E p \in Active : NsLink(p)
  \/ \E p \in Active : AddrListA(p)
  \/ \E p \in Active : AddrAdd(p)
  \/ \E p \in Active : GuestUp(p)
  \/ \E p \in Active : Announce(p)
  \/ \E p \in Active : Route(p)
  \/ \E p \in Active : DNsLink(p)
  \/ \E p \in Active : DAddrList(p)
  \/ \E p \in Active : AddrDel(p)
  \/ \E p \in Active : AddrList2(p)
  \/ \E p \in Active : GuestDel(p)

NextConc ==
  \/ \E p \in Active : AttachCall(p)
  \/ \E p \in Active : DetachCall(p)
  \/ \E p \in Active : Exists(p)
  \/ \E p \in Active : LookupBridge(p)
  \/ \E p \in Active : LinkAdd(p)
  \/ \E p \in Active : AttachDev(p)
  \/ \E p \in Active : PeerLookup(p)
  \/ \E p \in Active : SetNs(p)
  \/ \E p \in Active : SetName(p)
  \/ \E p \in Active : ArpCache(p)
  \/ \E p \in Active : LocalUp(p)
  \/ \E p \in Active : CleanupDel(p)
  \/ \E p \in Active : NsLink(p)
  \/ \E p \in Active : AddrListA(p)
  \/ \E p \in Active : AddrAdd(p)
  \/ \E p \in Active : GuestUp(p)
  \/ \E p \in Active : Announce(p)
  \/ \E p \in Active : Route(p)
  \/ \E p \in Active : DNsLink(p)
  \/ \E p \in Active : DAddrList(p)
  \/ \E p \in Active : AddrDel(p)
  \/ \E p \in Active : AddrList2(p)
  \/ \E p \in Active : GuestDel(p)

MaxRounds == 3

\* after a call of the round trip that succeeded: a Detach after an Attach,
\* an Attach after a Detach, with the same arguments
RoundNext(p) ==
  LET l == loc[p]
  IN /\ mode = "round"
     /\ l.pc = "done" /\ l.err = "nil"
     /\ l.round < MaxRounds
     /\ loc' = [loc EXCEPT ![p] =
                  [WithArgs(IF l.op = "attach" THEN "detach" ELSE "attach",
                            l.ns, l.ifName, l.id, l.bridge, l.mcast, l.cidrs)
                     EXCEPT !.round = l.round + 1]]
     /\ pre' = [pre EXCEPT ![p] = kernel]
     /\ UNCHANGED <<kernel, mode>>

NextRound ==
  \/ \E p \in Active : RoundNext(p)
  \/ \E p \in Active : Exists(p)
  \/ \E p \in Active : LookupBridge(p)
  \/ \E p \in Active : LinkAdd(p)
  \/ \E p \in Active : AttachDev(p)
  \/ \E p \in Active : PeerLookup(p)
  \/ \E p \in Active : SetNs(p)
  \/ \E p \in Active : SetName(p)
  \/ \E p \in Active : ArpCache(p)
  \/ \E p \in Active : LocalUp(p)
  \/ \E p \in Active : CleanupDel(p)
  \/ \E p \in Active : NsLink(p)
  \/ \E p \in Active : AddrListA(p)
  \/ \E p \in Active : AddrAdd(p)
  \/ \E p \in Active : GuestUp(p)
  \/ \E p \in Active : Announce(p)
  \/ \E p \in Active : Route(p)
  \/ \E p \in Active : DNsLink(p)
  \/ \E p \in Active : DAddrList(p)
  \/ \E p \in Active : AddrDel(p)
  \/ \E p \in Active : AddrList2(p)
  \/ \E p \in Active : GuestDel(p)

Spec == Init /\ [][Next]_vars

SpecConc == InitConc /\ [][NextConc]_vars

SpecRound == InitRound /\ [][NextRound]_vars

SpecRace == InitRace /\ [][NextConc]_vars

(***************************************************************************)
(* Vocabulary of the properties                                            *)
(***************************************************************************)
Done(p) == loc[p].pc = "done"

\* the call was made / was made and succeeded, during this Attach or Detach
Called(l, call) == \E n \in DOMAIN l.log : l.log[n][1] = call

Succeeded(l, call) == \E n \in DOMAIN l.log : l.log[n][1] = call /\ l.log[n][3]

\* the pair this call created is still there
PairLeft(k, l) == \E r \in k : r.idx = l.local

\* CreateAndAttachVeth returned an error after LinkAdd had created the pair
FailedAfterCreate(p) ==
  /\ Done(p) /\ loc[p].op = "attach"
  /\ Succeeded(loc[p], "LinkAdd")
  /\ ~Called(loc[p], "NsLink")

\* the addresses of the interface ifName of ns
AddrsOn(k, ns, ifName) == UNION {r.addrs : r \in PeerByName(k, ns, ifName)}

PreAddrs(p) == AddrsOn(pre[p], loc[p].ns, loc[p].ifName)

CurAddrs(p) == AddrsOn(kernel, loc[p].ns, loc[p].ifName)

Range(q) == {q[n] : n \in DOMAIN q}

(***************************************************************************)
(* C1: whenever CreateAndAttachVeth fails after it created the pair        *)
(* (unsupported device, set-master, add-port, peer lookup, initializer,    *)
(* local link-up), the pair no longer exists when the call returns.        *)
(* As stated, this is refuted by a rollback deletion that fails.           *)
(***************************************************************************)
C1_AlwaysRolledBack ==
  \A p \in Procs : FailedAfterCreate(p) => ~PairLeft(kernel, loc[p])

(***************************************************************************)
(* C1, amended: whenever CreateAndAttachVeth fails after it created the    *)
(* pair, the pair no longer exists when the call returns, unless the       *)
(* rollback deletion (netlink.LinkDel in cleanup) itself failed.           *)
(***************************************************************************)
C1_RolledBackUnlessDelFails ==
  \A p \in Procs :
    FailedAfterCreate(p) /\ ~loc[p].injDel =>
      /\ ~PairLeft(kernel, loc[p])
      /\ loc[p].err \in {"UnsupportedDevice", "AttachFailed", "PeerLookupFailed",
                         "NamespaceMoveFailed", "RenameFailed", "CacheConfigFailed",
                         "LinkUpFailed"}

\* a failure after the peer was moved into the container namespace and renamed
C1_Witness ==
  \E p \in Procs :
    /\ FailedAfterCreate(p) /\ ~loc[p].injDel
    /\ loc[p].err = "CacheConfigFailed"
    /\ Succeeded(loc[p], "SetName")

(***************************************************************************)
(* C2: whenever Attach returns an error from a call in which it created a  *)
(* veth pair, that pair has been deleted before the error is returned --   *)
(* stated here even granting that no rollback deletion fails.              *)
(***************************************************************************)
C2_PairDeletedOnAnyError ==
  \A p \in Procs :
    /\ Done(p) /\ loc[p].op = "attach"
    /\ Succeeded(loc[p], "LinkAdd")
    /\ loc[p].err # "nil"
    /\ ~loc[p].injDel
    => ~PairLeft(kernel, loc[p])

C4_ExactMatchRemoval ==
  \A p \in Procs :
    loc[p].op = "detach" =>
      /\ \A n \in DOMAIN loc[p].log :
           loc[p].log[n][1] = "AddrDel" => loc[p].log[n][2] \in PreAddrs(p)
      /\ (Done(p) /\ loc[p].injAt = "none" /\ Succeeded(loc[p], "NsLink")
            /\ \A n \in DOMAIN loc[p].cidrs : \A m \in DOMAIN loc[p].cidrs :
                 n # m => loc[p].cidrs[n] # loc[p].cidrs[m])
           => loc[p].err = "nil"

(***************************************************************************)
(* C5: when AddAddresses returns without error it has added exactly the    *)
(* desired addresses whose IP (prefix length ignored) was not configured   *)
(* on the link when the call started, and returns exactly those in the     *)
(* order of the desired list; and no step of an Attach removes or changes  *)
(* an address that was configured before.                                  *)
(***************************************************************************)
NewByIP(cidrs, before) ==
  LET Missing(a) == \A x \in before : x[1] # a[1]
  IN SelectSeq(cidrs, Missing)

C5_AddByIP ==
  \A p \in Procs :
    loc[p].op = "attach" =>
      /\ loc[p].pc = "guestUp" =>
           /\ loc[p].newAddrs = NewByIP(loc[p].cidrs, PreAddrs(p))
           /\ CurAddrs(p) = PreAddrs(p) \cup Range(loc[p].newAddrs)
      /\ PeerByName(pre[p], loc[p].ns, loc[p].ifName) # {} =>
           PreAddrs(p) \subseteq CurAddrs(p)

\* existing = {10.0.0.1/24}, desired = <<10.0.0.1/16, 10.0.0.2/24>>:
\* only 10.0.0.2/24 is added and reported
C5_Witness ==
  \E p \in Procs :
    /\ loc[p].op = "attach" /\ loc[p].pc = "guestUp"
    /\ PreAddrs(p) = {<<1, 24>>}
    /\ loc[p].cidrs = << <<1, 16>>, <<2, 24>> >>
    /\ loc[p].newAddrs = << <<2, 24>> >>
    /\ CurAddrs(p) = {<<1, 24>>, <<2, 24>>}

(***************************************************************************)
(* C6: a Detach that succeeds has deleted the guest interface if and only  *)
(* if no address was left on it after the removals; with an address left   *)
(* the interface still exists, with the addresses not removed.             *)
(***************************************************************************)
Removed(l) ==
  {l.log[n][2] : n \in {m \in DOMAIN l.log : l.log[m][1] = "AddrDel" /\ l.log[m][3]}}

C6_DeletedIffEmpty ==
  \A p \in Procs :
    Done(p) /\ loc[p].op = "detach" /\ loc[p].err = "nil" =>
      LET left == PreAddrs(p) \ Removed(loc[p])
          there == PeerByName(kernel, loc[p].ns, loc[p].ifName)
      IN /\ (there = {}) <=> (left = {})
         /\ there # {} => CurAddrs(p) = left

\* the removals emptied an interface that had two addresses, and it is gone
C6_Witness ==
  \E p \in Procs :
    /\ Done(p) /\ loc[p].op = "detach" /\ loc[p].err = "nil"
    /\ Cardinality(PreAddrs(p)) = 2
    /\ Cardinality(Removed(loc[p])) = 2
    /\ PeerByName(kernel, loc[p].ns, loc[p].ifName) = {}

(***************************************************************************)
(* C7: in every Attach the multicast route is installed only when          *)
(* withMulticastRoute is set, after the guest interface was set up and     *)
(* after an announcement was issued for every address the call added, and  *)
(* nothing of the call follows the installation.                           *)
(***************************************************************************)
C7_RouteLast ==
  \A p \in Procs :
    \A n \in DOMAIN loc[p].log :
      loc[p].log[n][1] = "AddRoute" =>
        /\ loc[p].op = "attach"
        /\ "mcast" \in loc[p].known /\ loc[p].mcast
        /\ n = Len(loc[p].log)
        /\ Done(p)
        /\ \E m \in 1..(n - 1) : loc[p].log[m] = <<"GuestUp", 0, TRUE>>
        /\ \A a \in Range(loc[p].newAddrs) :
             \E m \in 1..(n - 1) : loc[p].log[m] = <<"Arping", a, TRUE>>
        /\ \A m \in 1..(n - 1) :
             loc[p].log[m][1] = "Arping" =>
               \E g \in 1..(m - 1) : loc[p].log[g] = <<"GuestUp", 0, TRUE>>

\* the route was installed in a call that added and announced two addresses
C7_Witness ==
  \E p \in Procs :
    /\ Done(p) /\ loc[p].err = "nil"
    /\ Succeeded(loc[p], "AddRoute")
    /\ Len(loc[p].newAddrs) = 2
    /\ \E r \in PeerByName(kernel, loc[p].ns, loc[p].ifName) : r.route /\ r.gup

(***************************************************************************)
(* C9: after a Detach that succeeded, a second Detach with identical       *)
(* arguments, undisturbed by the environment, succeeds too and leaves the  *)
(* kernel state as the first call left it.                                 *)
(***************************************************************************)
C9_DetachIdempotent ==
  \A p \in Procs :
    Done(p) /\ loc[p].retry /\ loc[p].op = "detach" /\ loc[p].injAt = "none" =>
      /\ loc[p].err = "nil"
      /\ kernel = pre[p]

(***************************************************************************)
(* C10: if the first part of Attach fails (device not found, pair creation *)
(* rejected, device attach, move, guest setup or local link-up failure),   *)
(* the interfaces of the host and of ns, with their names and addresses,   *)
(* are the same after the call as before it.                               *)
(* As stated, this is refuted by a rollback deletion that fails.           *)
(***************************************************************************)
Step1Failed(p) ==
  /\ Done(p) /\ loc[p].op = "attach"
  /\ loc[p].err # "nil"
  /\ ~Called(loc[p], "NsLink")

C10_StateUntouched ==
  \A p \in Procs : Step1Failed(p) => kernel = pre[p]

(***************************************************************************)
(* C10, amended: if the first part of Attach fails, no interface that      *)
(* existed before the call is deleted, renamed, moved or changed, and      *)
(* nothing new survives the call unless the rollback deletion itself       *)
(* failed, in which case the only new thing is the pair of this call.      *)
(***************************************************************************)
C10_UntouchedUnlessDelFails ==
  \A p \in Procs :
    Step1Failed(p) =>
      /\ pre[p] \subseteq kernel
      /\ ~loc[p].injDel => kernel = pre[p]
      /\ \A r \in kernel \ pre[p] : r.idx = loc[p].local /\ r.lname = LocalName(loc[p].id)

\* the pair creation is rejected because the names are taken by the pair of
\* an earlier attachment, which stays as it was
C10_Witness ==
  \E p \in Procs :
    /\ Step1Failed(p)
    /\ loc[p].err = "CreationFailed"
    /\ loc[p].injAt = "none"
    /\ \E r \in kernel : r.lname = LocalName(loc[p].id) /\ r.addrs # {}

\* a failure after the move into ns, rolled back
C10_WitnessRollback ==
  \E p \in Procs :
    /\ Step1Failed(p) /\ ~loc[p].injDel
    /\ loc[p].err = "RenameFailed"
    /\ kernel = pre[p]

(***************************************************************************)
(* C8: calls for two distinct identities attached to different namespaces  *)
(* do not interfere: in every interleaving each call ends with the error,  *)
(* the sequence of kernel calls and the resulting interfaces and addresses *)
(* (those of its namespace and the pair it created) it has                 *)
(* when it runs alone from the state it started in.                        *)
(* As stated, this is refuted by identities that agree on their first five *)
(* characters.                                                             *)
(***************************************************************************)
Footprint(k, l) ==
  {[r EXCEPT !.idx = NoLink] : r \in {x \in k : x.pns = l.ns \/ x.idx = l.local}}

SameAsAlone(p) ==
  LET alone == RunAlone(pre[p], loc[p])
  IN /\ alone.l.err = loc[p].err
     /\ alone.l.log = loc[p].log
     /\ alone.l.newAddrs = loc[p].newAddrs
     /\ Footprint(alone.k, alone.l) = Footprint(kernel, loc[p])

C8_NoInterference ==
  \A p \in Procs : Done(p) => SameAsAlone(p)

(***************************************************************************)
(* C8, amended: calls for two identities that differ within their first    *)
(* five characters, attached to different namespaces, do not interfere.    *)
(***************************************************************************)
C8_NoInterferenceDistinctPrefix ==
  mode = "concDistinct" => \A p \in Procs : Done(p) => SameAsAlone(p)

\* both calls have ended, one an Attach that created its pair and added an
\* address while the other caller's Attach was creating its own
C8_Witness ==
  /\ mode = "concDistinct"
  /\ \A p \in Procs : Done(p) /\ loc[p].op = "attach" /\ loc[p].err = "nil"
  /\ \A p \in Procs : Succeeded(loc[p], "LinkAdd") /\ Len(loc[p].newAddrs) = 1
  /\ Cardinality(kernel) = 2
  /\ \E p \in Procs : pre[p] # {}

(***************************************************************************)
(* C11: when a step after the pair creation fails and the rollback         *)
(* deletion fails too, CreateAndAttachVeth returns the error of the step   *)
(* that failed first; the failure of the deletion is neither returned nor  *)
(* does it change the error.                                               *)
(***************************************************************************)
ErrorOf(call) ==
  CASE call \in {"SetMaster", "AddPort"} -> "AttachFailed"
    [] call = "PeerLookup" -> "PeerLookupFailed"
    [] call = "SetNs"      -> "NamespaceMoveFailed"
    [] call = "SetName"    -> "RenameFailed"
    [] call = "ARPCache"   -> "CacheConfigFailed"
    [] call = "LocalUp"    -> "LinkUpFailed"
    [] OTHER               -> "UnsupportedDevice"

\* the call whose outcome sent CreateAndAttachVeth into cleanup: the entry
\* of the trace before the deletion
FailedStep(l) == l.log[Len(l.log) - 1]

RollbackFailed(p) ==
  /\ FailedAfterCreate(p)
  /\ loc[p].log[Len(loc[p].log)] = <<"LinkDel", 0, FALSE>>

C11_OriginalErrorOnly ==
  \A p \in Procs :
    RollbackFailed(p) =>
      /\ loc[p].err # "LinkDelFailed"
      /\ loc[p].err = IF FailedStep(loc[p])[3] THEN "UnsupportedDevice"
                      ELSE ErrorOf(FailedStep(loc[p])[1])
      /\ PairLeft(kernel, loc[p])

\* set-master failed, then the deletion failed: the caller sees AttachFailed
C11_Witness ==
  \E p \in Procs :
    /\ RollbackFailed(p)
    /\ FailedStep(loc[p]) = <<"SetMaster", 0, FALSE>>
    /\ loc[p].err = "AttachFailed"

(***************************************************************************)
(* C12: the device found under bridgeName falls into exactly one of        *)
(* bridge, datapath and unsupported; for an unsupported device (any kind   *)
(* other than a bridge, a generic link of type openvswitch or a plain      *)
(* device) CreateAndAttachVeth returns UnsupportedDevice after deleting    *)
(* the pair, and calls neither set-master nor add-port, the initializer or *)
(* link-up.                                                                *)
(* As stated, this is refuted by a rollback deletion that fails.           *)
(***************************************************************************)
\* the call has passed the switch over the device type
Classified(p) ==
  /\ loc[p].op = "attach"
  /\ Succeeded(loc[p], "LinkAdd")
  /\ loc[p].pc # "attachDev"

UnsupportedKind(p) == loc[p].maybeBridge \notin {"Bridge", "GenericOVS", "Device"}

ClassOf(p) ==
  {c \in {"bridge", "datapath", "unsupported"} :
     \/ c = "bridge" /\ Called(loc[p], "SetMaster")
     \/ c = "datapath" /\ Called(loc[p], "AddPort")
     \/ c = "unsupported" /\ loc[p].err = "UnsupportedDevice"}

NoCallsAttempted(p) ==
  \A c \in {"SetMaster", "AddPort", "PeerLookup", "TXOff", "SetNs", "SetName",
            "ARPCache", "LocalUp", "NsLink"} : ~Called(loc[p], c)

C12_UnsupportedPairDeleted ==
  \A p \in Procs :
    Classified(p) =>
      /\ Cardinality(ClassOf(p)) = 1
      /\ UnsupportedKind(p) =>
           /\ ClassOf(p) = {"unsupported"}
           /\ NoCallsAttempted(p)
           /\ loc[p].pc \in {"cleanup", "done"}
           /\ Done(p) => ~PairLeft(kernel, loc[p])

(***************************************************************************)
(* C12, amended: as C12, with the pair deleted unless the rollback         *)
(* deletion itself failed.                                                 *)
(***************************************************************************)
C12_UnsupportedRolledBack ==
  \A p \in Procs :
    Classified(p) =>
      /\ Cardinality(ClassOf(p)) = 1
      /\ (loc[p].maybeBridge = "Bridge") <=> (ClassOf(p) = {"bridge"})
      /\ (loc[p].maybeBridge \in {"GenericOVS", "Device"}) <=> (ClassOf(p) = {"datapath"})
      /\ UnsupportedKind(p) =>
           /\ ClassOf(p) = {"unsupported"}
           /\ NoCallsAttempted(p)
           /\ loc[p].pc \in {"cleanup", "done"}
           /\ Done(p) => /\ FailedStep(loc[p]) = <<"LinkAdd", 0, TRUE>>
                         /\ Called(loc[p], "LinkDel")
                         /\ ~loc[p].injDel => ~PairLeft(kernel, loc[p])

\* a generic link that is not of type openvswitch: the pair created and deleted
C12_Witness ==
  \E p \in Procs :
    /\ Classified(p) /\ Done(p)
    /\ loc[p].maybeBridge = "GenericOther"
    /\ loc[p].err = "UnsupportedDevice"
    /\ loc[p].log[Len(loc[p].log)] = <<"LinkDel", 0, TRUE>>
    /\ ~PairLeft(kernel, loc[p])

(***************************************************************************)
(* C13: after WithNetNS or WithNetNSLink returns, with or without error,   *)
(* the calling goroutine sees the namespace it saw before; so every        *)
(* host-side step of Attach (device lookup, pair creation, attachment,     *)
(* move, rollback deletion, local link-up) runs in the original namespace, *)
(* and only the wrapped work runs in the container namespace.              *)
(***************************************************************************)
Wrapped ==
  {"arpCache", "addrList", "addrAdd", "guestUp", "announce", "route",
   "dAddrList", "addrDel", "addrList2", "guestDel"}

C13_NamespaceRestored ==
  \A p \in Procs :
    /\ loc[p].pc \notin Wrapped => loc[p].curns = Host
    /\ loc[p].pc \in Wrapped => loc[p].curns = loc[p].ns /\ loc[p].saved = Host
    /\ \A n \in DOMAIN loc[p].log :
         loc[p].log[n][1] \in {"LinkDel", "LocalUp"} /\ ~loc[p].log[n][3] =>
           loc[p].injDel \/ loc[p].injAt = "localUp"

\* the wrapped guest setup failed, and the rollback deletion that followed
\* found the local end, in the host namespace
C13_Witness ==
  \E p \in Procs :
    /\ Done(p) /\ loc[p].curns = Host
    /\ \E n \in DOMAIN loc[p].log : loc[p].log[n] = <<"ARPCache", 0, FALSE>>
    /\ loc[p].log[Len(loc[p].log)] = <<"LinkDel", 0, TRUE>>
    /\ loc[p].ns # Host

(***************************************************************************)
(* C14: the names of the two ends are "vethwepl" and "vethwg" followed by  *)
(* the first 5 characters of the identity (the whole identity when it has  *)
(* no more than 5), the same on every call with that identity: the pair a  *)
(* call creates carries them, and a creation the kernel rejects is         *)
(* rejected because a link of one of these names is there already.         *)
(***************************************************************************)
Prefix5(id) == [n \in 1..(IF Len(id) < 5 THEN Len(id) ELSE 5) |-> id[n]]

SomeIds == AllIds \cup {<<>>, <<"a", "b", "c", "d", "e">>, <<"a", "b", "c", "d">>}

C14_NamesFromPrefix ==
  /\ \A id \in SomeIds :
       /\ LocalName(id) = <<"vethwepl">> \o Prefix5(id)
       /\ PeerName(id) = <<"vethwg">> \o Prefix5(id)
  /\ \A id1 \in SomeIds : \A id2 \in SomeIds :
       Prefix5(id1) = Prefix5(id2) =>
         LocalName(id1) = LocalName(id2) /\ PeerName(id1) = PeerName(id2)
  /\ \A p \in Procs :
       loc[p].op = "attach" =>
         /\ \A r \in kernel :
              r.idx = loc[p].local =>
                /\ r.lname = <<"vethwepl">> \o Prefix5(loc[p].id)
                /\ r.pname \in {<<"vethwg">> \o Prefix5(loc[p].id), loc[p].ifName}
                /\ r.pname = loc[p].ifName => Called(loc[p], "SetName")
         /\ loc[p].log # <<>> /\ loc[p].log[Len(loc[p].log)] = <<"LinkAdd", 0, FALSE>>
              /\ loc[p].injAt = "none" =>
              \E r \in kernel :
                \/ r.lname = <<"vethwepl">> \o Prefix5(loc[p].id)
                \/ r.pns = Host /\ r.pname = <<"vethwg">> \o Prefix5(loc[p].id)

\* identity abcdeg: its pair is vethweplabcde, which a second creation for
\* an identity of the same prefix, in another namespace, runs into
C14_Witness ==
  \E p \in Procs :
    /\ Done(p) /\ loc[p].op = "attach"
    /\ loc[p].id = IdB
    /\ loc[p].err = "CreationFailed" /\ loc[p].injAt = "none"
    /\ \E r \in kernel : r.lname = <<"vethwepl", "a", "b", "c", "d", "e">> /\ r.pns # loc[p].ns

(***************************************************************************)
(* C15: in an Attach that finds the guest interface absent the stages come *)
(* in the order pair created, local end attached to the device, peer moved *)
(* into ns, peer renamed and ARP cache configured, (local end up,)         *)
(* addresses reconciled, guest interface up, multicast route; a stage is   *)
(* entered only after every earlier stage succeeded in this call, and the  *)
(* initializer (move, rename, ARP cache) runs before the local end is set  *)
(* up.                                                                     *)
(***************************************************************************)
Stages ==
  <<{"LinkByName"}, {"LinkAdd"}, {"SetMaster", "AddPort"}, {"PeerLookup"},
    {"SetNs"}, {"SetName"}, {"ARPCache"}, {"LocalUp"}, {"NsLink"},
    {"AddrList"}, {"GuestUp"}, {"AddRoute"}>>

StartedAbsent(p) ==
  /\ loc[p].op = "attach"
  /\ loc[p].log # <<>>
  /\ loc[p].log[1] = <<"Exists", 0, FALSE>>

C15_StagesInOrder ==
  \A p \in Procs :
    StartedAbsent(p) =>
      LET log == loc[p].log
          Before(n, calls) == \E m \in 1..(n - 1) : log[m][1] \in calls /\ log[m][3]
      IN /\ \A n \in DOMAIN log : \A s \in DOMAIN Stages :
              log[n][1] \in Stages[s] =>
                /\ \A t \in 1..(s - 1) : Before(n, Stages[t])
                /\ \A m \in 1..(n - 1) : log[m][1] \notin Stages[s]
         /\ \A n \in DOMAIN log :
              /\ log[n][1] = "AddrAdd" => Before(n, {"AddrList"}) /\ ~Before(n, {"GuestUp"})
              /\ log[n][1] = "Arping" => Before(n, {"GuestUp"}) /\ ~Before(n, {"AddRoute"})
              /\ ~log[n][3] /\ n > 1 =>
                   n = Len(log) \/ (n = Len(log) - 1 /\ log[Len(log)][1] = "LinkDel")
         /\ \A r \in kernel :
              r.idx = loc[p].local =>
                /\ r.lup => r.attached /\ r.pns = loc[p].ns /\ r.pname = loc[p].ifName
                /\ r.pns # Host => r.attached
                /\ r.gup \/ r.addrs # {} => r.lup
                /\ r.route => r.gup

\* all stages passed, the route included, with two addresses added
C15_Witness ==
  \E p \in Procs :
    /\ StartedAbsent(p) /\ Done(p) /\ loc[p].err = "nil"
    /\ Succeeded(loc[p], "AddRoute")
    /\ Succeeded(loc[p], "AddPort")
    /\ Len(loc[p].newAddrs) = 2
    /\ \E r \in kernel : r.idx = loc[p].local /\ r.route /\ r.lup

(***************************************************************************)
(* C16: in every Attach an announcement is issued exactly once for each    *)
(* address the call added, in the order AddAddresses returned them, after  *)
(* the guest interface was set up; none for an address whose IP was        *)
(* configured before, and none at all when AddAddresses or the guest       *)
(* link-up fails.                                                          *)
(***************************************************************************)
Arpings(l) ==
  LET IsArping(e) == e[1] = "Arping"
      arps == SelectSeq(l.log, IsArping)
  IN [n \in 1..Len(arps) |-> arps[n][2]]

C16_AnnouncedOncePerNew ==
  \A p \in Procs :
    loc[p].op = "attach" =>
      LET l == loc[p]
          arps == Arpings(l)
      IN /\ l.pc = "route" \/ (Done(p) /\ Succeeded(l, "GuestUp")) =>
              /\ arps = l.newAddrs
              /\ arps = NewByIP(l.cidrs, PreAddrs(p))
         /\ ~Succeeded(l, "GuestUp") \/ l.pc = "announce" => arps = <<>>
         /\ l.err \in {"AddressQueryFailed", "AddressMutationFailed", "LinkUpFailed"} =>
              arps = <<>>
         /\ \A n \in DOMAIN arps :
              /\ \A m \in DOMAIN arps : arps[n] = arps[m] => n = m
              /\ \A x \in PreAddrs(p) : x[1] # arps[n][1]
              /\ \E m \in DOMAIN l.log : l.log[m] = <<"AddrAdd", arps[n], TRUE>>
         /\ \A n \in DOMAIN l.log : \A m \in DOMAIN l.log :
              l.log[n][1] = "Arping" /\ l.log[m][1] \in {"AddrAdd", "GuestUp"} => m < n

\* 10.0.0.1/24 configured before, 10.0.0.1/16 and 10.0.0.2/24 desired:
\* one announcement, for 10.0.0.2
C16_Witness ==
  \E p \in Procs :
    /\ Done(p) /\ loc[p].op = "attach" /\ loc[p].err = "nil"
    /\ PreAddrs(p) = {<<1, 24>>}
    /\ loc[p].cidrs = << <<1, 16>>, <<2, 24>> >>
    /\ Arpings(loc[p]) = << <<2, 24>> >>

(***************************************************************************)
(* C18: if adding the k-th desired address fails in AddAddresses, the      *)
(* addresses added before it in the same call stay configured,             *)
(* AddAddresses reports no added address, and Attach returns the error     *)
(* without setting the guest interface up, without an announcement and     *)
(* without installing the route.                                           *)
(***************************************************************************)
AddFailed(p) ==
  /\ loc[p].op = "attach"
  /\ \E n \in DOMAIN loc[p].log : loc[p].log[n][1] = "AddrAdd" /\ ~loc[p].log[n][3]

AddedBy(l) ==
  {l.log[n][2] : n \in {m \in DOMAIN l.log : l.log[m][1] = "AddrAdd" /\ l.log[m][3]}}

C18_NoAddressRollback ==
  \A p \in Procs :
    AddFailed(p) =>
      /\ Done(p) /\ loc[p].err = "AddressMutationFailed"
      /\ loc[p].newAddrs = <<>>
      /\ CurAddrs(p) = PreAddrs(p) \cup AddedBy(loc[p])
      /\ AddedBy(loc[p]) = {loc[p].cidrs[n] : n \in {m \in 1..(loc[p].i - 1) :
                               \A x \in PreAddrs(p) : x[1] # loc[p].cidrs[m][1]}}
      /\ ~Called(loc[p], "GuestUp")
      /\ ~Called(loc[p], "Arping")
      /\ ~Called(loc[p], "AddRoute")
      /\ \A r \in PeerByName(kernel, loc[p].ns, loc[p].ifName) :
           /\ PeerByName(pre[p], loc[p].ns, loc[p].ifName) = {} => ~r.gup /\ ~r.route
           /\ \A q \in PeerByName(pre[p], loc[p].ns, loc[p].ifName) :
                r.gup = q.gup /\ r.route = q.route

\* the second address fails: the first, 10.0.0.1/24, stays on the new interface
C18_Witness ==
  \E p \in Procs :
    /\ AddFailed(p) /\ loc[p].i = 2
    /\ StartedAbsent(p)
    /\ AddedBy(loc[p]) = {<<1, 24>>}
    /\ CurAddrs(p) = {<<1, 24>>}
    /\ loc[p].newAddrs = <<>>

(***************************************************************************)
(* C17: round trip.  With the guest interface absent at the start, an      *)
(* Attach with address list A that succeeds followed by a Detach with A    *)
(* that succeeds leaves no guest interface in ns and no host-side end of   *)
(* that identity; the Attach with the same arguments that follows finds    *)
(* the interface absent, creates the pair again and, undisturbed by the    *)
(* environment, succeeds.                                                  *)
(***************************************************************************)
HostEnds(k, id) == {r \in k : r.lname = LocalName(id)}

C17_RoundTrip ==
  \A p \in Procs :
    LET l == loc[p]
        guest == PeerByName(kernel, l.ns, l.ifName)
    IN l.round > 1 =>
         /\ l.op = "detach" /\ Done(p) /\ l.err = "nil" =>
              /\ guest = {}
              /\ HostEnds(kernel, l.id) = {}
              /\ kernel \subseteq pre[p]
              /\ Cardinality(pre[p] \ kernel) = 1
         /\ l.op = "attach" =>
              /\ PeerByName(pre[p], l.ns, l.ifName) = {}
              /\ HostEnds(pre[p], l.id) = {}
              /\ l.log # <<>> => l.log[1] = <<"Exists", 0, FALSE>>
              /\ Done(p) /\ l.injAt = "none" =>
                   /\ l.err = "nil"
                   /\ Succeeded(l, "LinkAdd")
                   /\ HostEnds(kernel, l.id) # {}
                   /\ \E r \in guest : r.idx = l.local /\ r.addrs = Range(l.cidrs) /\ r.gup

\* the third call of the round trip has created the pair again, next to the
\* pair of another container, and added the two addresses again
C17_Witness ==
  \E p \in Procs :
    /\ loc[p].round = 3 /\ loc[p].op = "attach"
    /\ Done(p) /\ loc[p].err = "nil"
    /\ Len(loc[p].cidrs) = 2
    /\ AddedBy(loc[p]) = Range(loc[p].cidrs)
    /\ Cardinality(kernel) = 2

(***************************************************************************)
(* C19: two concurrent Attach calls for identities of distinct prefixes    *)
(* and the same (ns, ifName) that both find the guest interface absent: at *)
(* most one interface named ifName exists in ns, and the call that loses   *)
(* the rename returns its error with its pair rolled back, no host-side    *)
(* end of its identity left.                                               *)
(* As stated, this is refuted by a rollback deletion that fails.           *)
(***************************************************************************)
BothFoundAbsent ==
  /\ mode = "race"
  /\ \A p \in Procs : StartedAbsent(p)

\* the kernel refused the rename: the name is taken
LostRename(p) ==
  /\ Done(p)
  /\ \E n \in DOMAIN loc[p].log : loc[p].log[n] = <<"SetName", 0, FALSE>>
  /\ loc[p].injAt # "setName"

C19_LoserRolledBack ==
  BothFoundAbsent =>
    /\ Cardinality(PeerByName(kernel, "ns1", IfName)) <= 1
    /\ \A p \in Procs :
         LostRename(p) =>
           /\ loc[p].err = "RenameFailed"
           /\ HostEnds(kernel, loc[p].id) = {}

(***************************************************************************)
(* C19, amended: as C19, with the pair of the losing call rolled back      *)
(* unless its rollback deletion itself failed.                             *)
(***************************************************************************)
C19_LoserRolledBackUnlessDelFails ==
  BothFoundAbsent =>
    /\ Cardinality(PeerByName(kernel, "ns1", IfName)) <= 1
    /\ \A p \in Procs :
         LostRename(p) =>
           /\ loc[p].err = "RenameFailed"
           /\ ~Called(loc[p], "NsLink")
           /\ ~loc[p].injDel =>
                /\ HostEnds(kernel, loc[p].id) = {}
                /\ ~PairLeft(kernel, loc[p])

\* both calls have ended: one lost the rename and its pair is gone, the
\* other has its interface in ns with its address
C19_Witness ==
  /\ BothFoundAbsent
  /\ \E p \in Procs : \E q \in Procs :
       /\ LostRename(p) /\ ~loc[p].injDel
       /\ Done(q) /\ loc[q].err = "nil" /\ Len(loc[q].newAddrs) = 1
       /\ kernel = {r \in kernel : r.idx = loc[q].local}
       /\ Cardinality(kernel) = 1

====
